---- MODULE Spec2Model ----
(***************************************************************************)
(* Model of the fact-checking pipeline:                                    *)
(*   - the persistence model (Claim / Source / Answer rows in a relational *)
(*     store), src/Database/data_entities.py and src/data_entities.py;     *)
(*   - the summarization client, src/Preprocessor/summarizer.py;           *)
(*   - the graph loader and visualizer, src/GraphRAG/graph_manager.py.     *)
(* Each component has its own next-state relation and specification; the   *)
(* components share no state.                                              *)
(***************************************************************************)
EXTENDS Integers, Sequences, FiniteSets, TLC

VARIABLES
    db,        \* the relational store: [schema, rows], one entry per table
    objs,      \* the Claim objects constructed so far: [id, impl]
    added,     \* history: per claim id and source data, the number of INSERT INTO sources
               \* that succeeded since clear_database was last called on the id
    last,      \* history: the last persistence call, [op, impl, id, outcome]
    arg,       \* history: the argument of the last persistence call
    ret,       \* history: the value returned by the last persistence call
    sum,       \* Summarizer.summarize_texts: the call in progress or last made
    rq,        \* Summarizer.claim_title_summarize: the last call made
    graph,     \* the graph store: Article nodes, Site/Entity/Topic nodes, relationships
    storeUp,   \* whether the graph store answers queries
    loaded,    \* history: per article title, the url and body last loaded with it
    gl,        \* history: the last GraphManager call, load_data or extract_and_save_graph
    ov         \* avoid_overlap: the call in progress or last made

dbVars == <<db, objs, added, last, arg, ret>>
sumVars == <<sum, rq>>
graphVars == <<graph, storeUp, loaded, gl>>
vars == <<db, objs, added, last, arg, ret, sum, rq, graph, storeUp, loaded, gl, ov>>

----------------------------------------------------------------------------
(* Bounds of the model *)

\* distinct values uuid.uuid4() returns as claim identifiers
MaxUuid == 1
\* caller-supplied claim identifiers
MaxGivenIds == 1
\* length of the short titles passed to Claim(...)
MaxTitleLen == 2
\* length of one sources_data list
MaxBatch == 2
\* rows in the sources table
MaxSourceRows == 2
\* rows in the answers table
MaxAnswerRows == 1
\* Claim objects constructed
MaxObjs == 2
\* texts in one summarize_texts call
MaxTexts == 2
\* length of a text handed to the summarization client
MaxTextLen == 2
\* length of a completion text
MaxContentLen == 1
\* records in one load_data call
MaxLoad == 2
\* nodes of a drawn graph
MaxNodes == 3
\* largest coordinate of a laid-out node, in units of 0.05
MaxCoord == 2

----------------------------------------------------------------------------
(* Values *)

Range(s) == {s[i] : i \in 1..Len(s)}

RECURSIVE SeqsUpTo(_, _)
\* all sequences over S of length 0..n
SeqsUpTo(S, n) ==
    IF n = 0 THEN {<<>>}
    ELSE LET shorter == SeqsUpTo(S, n - 1)
         IN  shorter \cup {Append(s, x) : s \in {t \in shorter : Len(t) = n - 1}, x \in S}

\* a Python str / a Python list of str / None, as passed by a caller
PyStrVal(s) == [t |-> "str", s |-> s]
PyList(items) == [t |-> "list", items |-> items]
None == [t |-> "None"]

RECURSIVE JoinRepr(_)
\* the elements of a list as repr() writes them, separated by ", "
JoinRepr(items) ==
    IF items = <<>> THEN ""
    ELSE IF Len(items) = 1 THEN "'" \o items[1] \o "'"
    ELSE "'" \o items[1] \o "', " \o JoinRepr(Tail(items))

\* str(x) as add_sources applies it to data['entities']
PyStr(v) ==
    IF v.t = "str" THEN v
    ELSE IF v.t = "None" THEN PyStrVal("None")
    ELSE PyStrVal("[" \o JoinRepr(v.items) \o "]")

\* a column value: SQL NULL or a text
NullCell == [t |-> "null"]
Txt(s) == [t |-> "text", v |-> s]

\* identifiers: a caller-supplied string, or a value of str(uuid.uuid4()); the
\* values drawn for claims, for sources and for answers are named apart
Uuid4(kind, n) == <<kind, n>>
GivenIds == {<<"given", k>> : k \in 1..MaxGivenIds}

AllIds == GivenIds \cup {Uuid4("uuid4-claim", n) : n \in 1..MaxUuid}

\* titles passed to Claim(...): the short prefixes of a sample title, and the
\* sample title "IDThe Earth Is Round" itself
SampleTitle ==
    <<"I", "D", "T", "h", "e", " ", "E", "a", "r", "t", "h", " ", "I", "s", " ",
      "R", "o", "u", "n", "d">>
Titles == {SubSeq(SampleTitle, 1, n) : n \in 0..MaxTitleLen} \cup {SampleTitle}

EntityValues == {PyStrVal("e1"), PyList(<<"e1", "e2">>)}
SourceData ==
    [title : {"t1"}, url : {"u1"}, site : {"s1"}, body : {"b1"}, topic : {"p1"},
     entities : EntityValues]
Batches == SeqsUpTo(SourceData, MaxBatch)

Impls == {"full", "simple"}

----------------------------------------------------------------------------
(* The relational store behind db.create_table / execute_query / fetch_all  *)
(* / fetch_one.  Every statement is committed when it returns; a statement  *)
(* the engine rejects raises to the caller and changes nothing.             *)

TableNames == {"claims", "sources", "answers"}
NoTable == [exists |-> FALSE, cols |-> {}, pk |-> FALSE]

EmptyDb ==
    [schema |-> [n \in TableNames |-> NoTable],
     rows   |-> [n \in TableNames |-> <<>>]]

\* CREATE TABLE IF NOT EXISTS: a no-op on a table that exists, whatever its columns
create_table(d, name, ddl) ==
    IF d.schema[name].exists THEN d ELSE [d EXCEPT !.schema[name] = ddl]

\* a parameter the engine can bind: text, not a Python list
Bindable(row) == ~("entities" \in DOMAIN row /\ row.entities.t = "list")

\* can INSERT INTO name (DOMAIN row) VALUES (row) be executed
InsertOk(d, name, row) ==
    /\ d.schema[name].exists
    /\ DOMAIN row \subseteq d.schema[name].cols
    /\ Bindable(row)
    /\ d.schema[name].pk => \A i \in 1..Len(d.rows[name]) : d.rows[name][i].id # row.id

\* INSERT INTO name (...) VALUES (...): [db, ok]; columns not named are NULL
execute_insert(d, name, row) ==
    IF InsertOk(d, name, row)
    THEN [db |-> [d EXCEPT !.rows[name] =
                      Append(@, [c \in d.schema[name].cols |->
                                    IF c \in DOMAIN row THEN row[c] ELSE NullCell])],
          ok |-> TRUE]
    ELSE [db |-> d, ok |-> FALSE]

\* DELETE FROM name WHERE col = val: [db, ok]; deleting nothing is no error
execute_delete(d, name, col, val) ==
    IF d.schema[name].exists
    THEN [db |-> [d EXCEPT !.rows[name] = SelectSeq(@, LAMBDA r : r[col] # val)],
          ok |-> TRUE]
    ELSE [db |-> d, ok |-> FALSE]

\* SELECT * FROM name WHERE col = val: [rows, ok]
fetch_all(d, name, col, val) ==
    IF d.schema[name].exists
    THEN [rows |-> SelectSeq(d.rows[name], LAMBDA r : r[col] = val), ok |-> TRUE]
    ELSE [rows |-> <<>>, ok |-> FALSE]

\* the identifiers held by a row of the store or by a Claim object
UsedIds(d, os) ==
    {o.id : o \in os} \cup
    UNION {{d.rows[n][i].id : i \in 1..Len(d.rows[n])} : n \in TableNames}

\* uuid.uuid4() returns a value that no row and no object holds
Pool(kind) ==
    IF kind = "uuid4-claim" THEN MaxUuid
    ELSE IF kind = "uuid4-source" THEN MaxSourceRows
    ELSE MaxAnswerRows
Unused(kind, d, os) == {n \in 1..Pool(kind) : Uuid4(kind, n) \notin UsedIds(d, os)}
HasFresh(kind, d, os) == Unused(kind, d, os) # {}
uuid4(kind, d, os) ==
    Uuid4(kind, CHOOSE n \in Unused(kind, d, os) : \A m \in Unused(kind, d, os) : n <= m)

----------------------------------------------------------------------------
(* Claim, title/summary implementation (src/Database/data_entities.py) *)

ClaimsTableFull ==
    [exists |-> TRUE, cols |-> {"id", "text", "title", "summary"}, pk |-> TRUE]

SourcesTableFull ==
    [exists |-> TRUE,
     cols |-> {"id", "claim_id", "title", "url", "site", "body", "topic", "entities"},
     pk |-> TRUE]

AnswersTable ==
    [exists |-> TRUE, cols |-> {"id", "claim_id", "answer", "graphs_folder"}, pk |-> TRUE]

\* mutant: the first four characters dropped
StoredTitle_DropFour(title) == SubSeq(title, 5, Len(title))

\* mutant: the title stored as supplied
StoredTitle_Unsliced(title) == title

\* self.title = title[2:]
StoredTitle(title) == SubSeq(title, 3, Len(title))

\* Claim.save_to_db: [db, ok]
save_to_db_full(d, id, title) ==
    execute_insert(create_table(d, "claims", ClaimsTableFull), "claims",
                   [id |-> id, text |-> Txt("text"), title |-> Txt(title),
                    summary |-> Txt("summary")])

\* mutant: url and site bound to each other's placeholder
SourceRowFull_Swapped(sid, claim_id, data) ==
    [id |-> sid, claim_id |-> claim_id, title |-> data.title, url |-> data.site,
     site |-> data.url, body |-> data.body, topic |-> data.topic,
     entities |-> PyStr(data.entities)]

\* the parameters add_sources binds for one element of sources_data
SourceRowFull(sid, claim_id, data) ==
    [id |-> sid, claim_id |-> claim_id, title |-> data.title, url |-> data.url,
     site |-> data.site, body |-> data.body, topic |-> data.topic,
     entities |-> PyStr(data.entities)]

RECURSIVE InsertSourcesFull(_, _, _, _, _)
\* the for loop of add_sources from element k on: [db, n, ok], n rows inserted
InsertSourcesFull(d, os, claim_id, batch, k) ==
    IF k > Len(batch) THEN [db |-> d, n |-> k - 1, ok |-> TRUE]
    ELSE LET r == execute_insert(d, "sources",
                                 SourceRowFull(uuid4("uuid4-source", d, os), claim_id, batch[k]))
         IN  IF r.ok THEN InsertSourcesFull(r.db, os, claim_id, batch, k + 1)
             ELSE [db |-> d, n |-> k - 1, ok |-> FALSE]

\* one row of fetch_all as get_dict_sources returns it
SourceDict(row) ==
    [source_id |-> row.id, claim_id |-> row.claim_id, title |-> row.title,
     url |-> row.url, site |-> row.site, body |-> row.body, topic |-> row.topic,
     entities |-> row.entities]

RECURSIVE RunStatements(_, _, _)
\* clear_database: the three DELETE statements in order, stopping at the first
\* one that raises: [db, ok]
RunStatements(d, tables, id) ==
    IF tables = <<>> THEN [db |-> d, ok |-> TRUE]
    ELSE LET r == execute_delete(d, tables[1], IF tables[1] = "claims" THEN "id" ELSE "claim_id", id)
         IN  IF r.ok THEN RunStatements(r.db, Tail(tables), id)
             ELSE [db |-> r.db, ok |-> FALSE]

ClearOrder == <<"claims", "sources", "answers">>

----------------------------------------------------------------------------
(* Claim, text-only implementation (src/data_entities.py) *)

\* mutant: the claims table declared without PRIMARY KEY
ClaimsTableSimple_NoPK == [exists |-> TRUE, cols |-> {"id", "text"}, pk |-> FALSE]

ClaimsTableSimple == [exists |-> TRUE, cols |-> {"id", "text"}, pk |-> TRUE]

SourcesTableSimple ==
    [exists |-> TRUE,
     cols |-> {"id", "claim_id", "title", "url", "site", "body", "entities", "topic"},
     pk |-> TRUE]

\* Claim.save_to_db: [db, ok]
save_to_db_simple(d, id) ==
    execute_insert(create_table(d, "claims", ClaimsTableSimple), "claims",
                   [id |-> id, text |-> Txt("text")])

\* the parameters add_sources binds for one element of sources_data
SourceRowSimple(sid, claim_id, data) ==
    [id |-> sid, claim_id |-> claim_id, title |-> data.title, url |-> data.url,
     site |-> data.site, body |-> data.body, entities |-> data.entities,
     topic |-> data.topic]

RECURSIVE InsertSourcesSimple(_, _, _, _, _)
\* the for loop of add_sources from element k on: [db, n, ok], n rows inserted
InsertSourcesSimple(d, os, claim_id, batch, k) ==
    IF k > Len(batch) THEN [db |-> d, n |-> k - 1, ok |-> TRUE]
    ELSE LET r == execute_insert(d, "sources",
                                 SourceRowSimple(uuid4("uuid4-source", d, os), claim_id, batch[k]))
         IN  IF r.ok THEN InsertSourcesSimple(r.db, os, claim_id, batch, k + 1)
             ELSE [db |-> d, n |-> k - 1, ok |-> FALSE]

\* one row of fetch_all as get_sources passes it to Source(...)
SourceObject(row) ==
    [source_id |-> row.id, claim_id |-> row.claim_id, title |-> row.title,
     url |-> row.url, site |-> row.site, body |-> row.body, topic |-> row.topic,
     entities |-> row.entities]

----------------------------------------------------------------------------
(* Persistence operations *)

NoneId == <<"None", 0>>

Call(op, impl, id, ok) ==
    [op |-> op, impl |-> impl, id |-> id, outcome |-> IF ok THEN "ok" ELSE "raise"]

WithinRows(d) ==
    /\ Len(d.rows.sources) <= MaxSourceRows
    /\ Len(d.rows.answers) <= MaxAnswerRows

\* ids a caller can pass: fixed strings, or the id of a claim constructed before
KnownIds == GivenIds \cup {o.id : o \in objs}

\* the history after n successful inserts of add_sources(batch) on id
Record(id, batch, n) ==
    [p \in AllIds \X SourceData |->
        added[p] + Cardinality({k \in 1..n : p = <<id, batch[k]>>})]

InitDB ==
    /\ db = EmptyDb
    /\ objs = {}
    /\ added = [p \in AllIds \X SourceData |-> 0]
    /\ last = Call("none", "none", NoneId, TRUE)
    /\ arg = <<>>
    /\ ret = <<>>

\* Claim(text, title, summary, claim_id) of src/Database/data_entities.py
Claim_init_full(claim_id, title) ==
    LET id == IF claim_id = NoneId THEN uuid4("uuid4-claim", db, objs) ELSE claim_id
        r  == save_to_db_full(db, id, StoredTitle(title))
    IN  /\ claim_id = NoneId => HasFresh("uuid4-claim", db, objs)
        /\ WithinRows(r.db)
        /\ db' = r.db
        /\ objs' = IF r.ok THEN objs \cup {[id |-> id, impl |-> "full"]} ELSE objs
        /\ Cardinality(objs') <= MaxObjs
        /\ last' = Call("create_claim", "full", id, r.ok)
        /\ arg' = title
        /\ ret' = <<>>
        /\ UNCHANGED added

\* Claim(text, claim_id) of src/data_entities.py
Claim_init_simple(claim_id) ==
    LET id == IF claim_id = NoneId THEN uuid4("uuid4-claim", db, objs) ELSE claim_id
        r  == save_to_db_simple(db, id)
    IN  /\ claim_id = NoneId => HasFresh("uuid4-claim", db, objs)
        /\ WithinRows(r.db)
        /\ db' = r.db
        /\ objs' = IF r.ok THEN objs \cup {[id |-> id, impl |-> "simple"]} ELSE objs
        /\ Cardinality(objs') <= MaxObjs
        /\ last' = Call("create_claim", "simple", id, r.ok)
        /\ arg' = <<>>
        /\ ret' = <<>>
        /\ UNCHANGED added

\* Claim.add_sources(sources_data) of src/Database/data_entities.py
add_sources_full(self, batch) ==
    LET r     == InsertSourcesFull(create_table(db, "sources", SourcesTableFull),
                                   objs, self.id, batch, 1)
    IN  /\ self.impl = "full"
        /\ Len(batch) <= Cardinality(Unused("uuid4-source", db, objs))
        /\ WithinRows(r.db)
        /\ db' = r.db
        /\ added' = Record(self.id, batch, r.n)
        /\ last' = Call("add_sources", "full", self.id, r.ok)
        /\ arg' = batch
        /\ ret' = <<>>
        /\ UNCHANGED objs

\* Claim.add_sources(sources_data) of src/data_entities.py
add_sources_simple(self, batch) ==
    LET r     == InsertSourcesSimple(create_table(db, "sources", SourcesTableSimple),
                                     objs, self.id, batch, 1)
    IN  /\ self.impl = "simple"
        /\ Len(batch) <= Cardinality(Unused("uuid4-source", db, objs))
        /\ WithinRows(r.db)
        /\ db' = r.db
        /\ added' = Record(self.id, batch, r.n)
        /\ last' = Call("add_sources", "simple", self.id, r.ok)
        /\ arg' = batch
        /\ ret' = <<>>
        /\ UNCHANGED objs

\* Claim.get_dict_sources() of src/Database/data_entities.py
get_dict_sources(self) ==
    LET r == fetch_all(db, "sources", "claim_id", self.id)
    IN  /\ self.impl = "full"
        /\ last' = Call("get_sources", "full", self.id, r.ok)
        /\ arg' = <<>>
        /\ ret' = [k \in 1..Len(r.rows) |-> SourceDict(r.rows[k])]
        /\ UNCHANGED <<db, objs, added>>

\* Claim.get_sources() of src/data_entities.py
get_sources(self) ==
    LET r == fetch_all(db, "sources", "claim_id", self.id)
    IN  /\ self.impl = "simple"
        /\ last' = Call("get_sources", "simple", self.id, r.ok)
        /\ arg' = <<>>
        /\ ret' = [k \in 1..Len(r.rows) |-> SourceObject(r.rows[k])]
        /\ UNCHANGED <<db, objs, added>>

\* Claim.has_answer() of src/Database/data_entities.py (fetch_one(...) is not None)
has_answer(self) ==
    LET r == fetch_all(db, "answers", "claim_id", self.id)
    IN  /\ self.impl = "full"
        /\ last' = Call("has_answer", "full", self.id, r.ok)
        /\ arg' = <<>>
        /\ ret' = IF r.ok THEN <<r.rows # <<>>>> ELSE <<>>
        /\ UNCHANGED <<db, objs, added>>

\* Claim.clear_database() of src/Database/data_entities.py
clear_database(self) ==
    LET r == RunStatements(db, ClearOrder, self.id)
    IN  /\ self.impl = "full"
        /\ db' = r.db
        /\ added' = [p \in AllIds \X SourceData |-> IF p[1] = self.id THEN 0 ELSE added[p]]
        /\ last' = Call("clear", "full", self.id, r.ok)
        /\ arg' = <<>>
        /\ ret' = <<>>
        /\ UNCHANGED objs

\* Answer(claim_id, answer, graphs_folder, answer_id) of src/Database/data_entities.py
Answer_init(claim_id, answer_id) ==
    LET id == IF answer_id = NoneId THEN uuid4("uuid4-answer", db, objs) ELSE answer_id
        r  == execute_insert(create_table(db, "answers", AnswersTable), "answers",
                                [id |-> id, claim_id |-> claim_id, answer |-> Txt("answer"),
                                 graphs_folder |-> Txt("graphs")])
    IN  /\ answer_id = NoneId => HasFresh("uuid4-answer", db, objs)
        /\ WithinRows(r.db)
        /\ db' = r.db
        /\ last' = Call("create_answer", "full", claim_id, r.ok)
        /\ arg' = <<>>
        /\ ret' = <<>>
        /\ UNCHANGED <<objs, added>>

NextDB ==
    \/ \E c \in KnownIds \cup {NoneId}, t \in Titles :
          Claim_init_full(c, t) /\ UNCHANGED <<sumVars, graphVars, ov>>
    \/ \E c \in KnownIds \cup {NoneId} : Claim_init_simple(c) /\ UNCHANGED <<sumVars, graphVars, ov>>
    \/ \E o \in objs, b \in Batches : add_sources_full(o, b) /\ UNCHANGED <<sumVars, graphVars, ov>>
    \/ \E o \in objs, b \in Batches : add_sources_simple(o, b) /\ UNCHANGED <<sumVars, graphVars, ov>>
    \/ \E o \in objs : get_dict_sources(o) /\ UNCHANGED <<sumVars, graphVars, ov>>
    \/ \E o \in objs : get_sources(o) /\ UNCHANGED <<sumVars, graphVars, ov>>
    \/ \E o \in objs : has_answer(o) /\ UNCHANGED <<sumVars, graphVars, ov>>
    \/ \E o \in objs : clear_database(o) /\ UNCHANGED <<sumVars, graphVars, ov>>
    \/ \E c \in KnownIds, a \in {NoneId} : Answer_init(c, a) /\ UNCHANGED <<sumVars, graphVars, ov>>

----------------------------------------------------------------------------
(* Summarization client (src/Preprocessor/summarizer.py) *)

\* texts handed to the client: the prefixes of a sample text
SampleText == <<"x", "y", "z", "w", "v">>
TextValues == {SubSeq(SampleText, 1, n) : n \in 1..MaxTextLen}
TextLists == SeqsUpTo(TextValues, MaxTexts)

\* token_cut: a cutoff below the text lengths, and the default
token_cut == 20000
CutValues == {1, token_cut}

\* sleep_temperature, in units of 0.0001 s per character
sleep_temperature == 3

\* what client.chat.completions.create(...) does: it raises, it answers without
\* a text (message.content is None), or it answers with a text
Contents == SeqsUpTo({" ", "s"}, MaxContentLen)
Replies ==
    {[kind |-> "raise"], [kind |-> "malformed"]} \cup
    {[kind |-> "text", content |-> c] : c \in Contents}

Str(chars) == [t |-> "str", s |-> chars]

RECURSIVE LStrip(_)
LStrip(c) == IF c # <<>> /\ Head(c) = " " THEN LStrip(Tail(c)) ELSE c

RECURSIVE RStrip(_)
RStrip(c) ==
    IF c # <<>> /\ c[Len(c)] = " " THEN RStrip(SubSeq(c, 1, Len(c) - 1)) ELSE c

\* str.strip()
Strip(c) == RStrip(LStrip(c))

\* text[:n]
Slice(text, n) == SubSeq(text, 1, IF Len(text) < n THEN Len(text) ELSE n)

\* response.choices[0].message.content.strip() of either method: [ok, value],
\* ok FALSE when the statement raises
Completion(reply) ==
    IF reply.kind = "text" THEN [ok |-> TRUE, value |-> Strip(reply.content)]
    ELSE [ok |-> FALSE, value |-> <<>>]

\* Summarizer.generate_summary(text): propagates whatever the call raises
generate_summary(text, reply) == Completion(reply)

IdleSum ==
    [pc |-> "idle", texts |-> <<>>, cut |-> 0, summaries |-> <<>>, sent |-> <<>>,
     replies |-> <<>>, slept |-> <<>>, log |-> <<>>]
IdleRq ==
    [pc |-> "idle", text |-> <<>>, reply |-> [kind |-> "none"], calls |-> 0,
     ret |-> None, log |-> <<>>]

InitSum ==
    /\ sum = IdleSum
    /\ rq = IdleRq

\* mutant: the remote call made outside the try block
claim_title_summarize_NoCatch(text, reply) ==
    LET r == Completion(reply)
    IN  /\ sum.pc \in {"idle", "returned"}
        /\ rq' = [pc |-> IF r.ok THEN "returned" ELSE "raised", text |-> text,
                  reply |-> reply, calls |-> 1,
                  ret |-> IF r.ok THEN Str(r.value) ELSE None,
                  log |-> IF r.ok THEN <<"info", "info", "info", "info">>
                          ELSE <<"info", "info">>]
        /\ sum' = IdleSum

\* claim_title_summarize(text): one remote call inside try/except
claim_title_summarize(text, reply) ==
    LET r == Completion(reply)
    IN  /\ sum.pc \in {"idle", "returned"}
        /\ rq' = [pc |-> "returned", text |-> text, reply |-> reply, calls |-> 1,
                  ret |-> IF r.ok THEN Str(r.value) ELSE None,
                  log |-> IF r.ok THEN <<"info", "info", "info", "info">>
                          ELSE <<"info", "info", "error">>]
        /\ sum' = IdleSum

\* summarize_texts(texts, token_cut): entry, up to the for loop
summarize_texts(texts, cut) ==
    /\ sum.pc \in {"idle", "returned"}
    /\ sum' = [IdleSum EXCEPT !.pc = "loop", !.texts = texts, !.cut = cut,
                              !.log = <<"info">>]
    /\ rq' = IdleRq

\* mutant: the try block around the whole loop, so the first failure ends the batch
summarize_texts_iteration_Abort(reply) ==
    LET index       == Len(sum.replies) + 1
        cutted_text == Slice(sum.texts[index], sum.cut)
        r           == generate_summary(cutted_text, reply)
    IN  /\ sum.pc = "loop"
        /\ index <= Len(sum.texts)
        /\ sum' =
              IF ~r.ok
              THEN [sum EXCEPT !.pc = "returned",
                               !.sent = Append(@, cutted_text),
                               !.replies = Append(@, reply),
                               !.summaries = Append(@, None),
                               !.slept = Append(@, 0),
                               !.log = @ \o <<"info", "debug", "error", "info">>]
              ELSE IF r.value # <<>>
              THEN [sum EXCEPT !.sent = Append(@, cutted_text),
                               !.replies = Append(@, reply),
                               !.summaries = Append(@, Str(r.value)),
                               !.slept = Append(@, Len(cutted_text) * sleep_temperature),
                               !.log = @ \o <<"info", "debug", "info", "info">>]
              ELSE [sum EXCEPT !.sent = Append(@, cutted_text),
                               !.replies = Append(@, reply),
                               !.slept = Append(@, 0),
                               !.log = @ \o <<"info", "debug", "warning">>]
        /\ UNCHANGED rq

\* summarize_texts: one iteration of the for loop; slept records, per
\* iteration, the argument of time.sleep, 0 where the iteration does not sleep
summarize_texts_iteration(reply) ==
    LET index       == Len(sum.replies) + 1
        cutted_text == Slice(sum.texts[index], sum.cut)
        r           == generate_summary(cutted_text, reply)
    IN  /\ sum.pc = "loop"
        /\ index <= Len(sum.texts)
        /\ sum' =
              IF ~r.ok
              THEN [sum EXCEPT !.sent = Append(@, cutted_text),
                               !.replies = Append(@, reply),
                               !.summaries = Append(@, None),
                               !.slept = Append(@, 0),
                               !.log = @ \o <<"info", "debug", "error">>]
              ELSE IF r.value # <<>>
              THEN [sum EXCEPT !.sent = Append(@, cutted_text),
                               !.replies = Append(@, reply),
                               !.summaries = Append(@, Str(r.value)),
                               !.slept = Append(@, Len(cutted_text) * sleep_temperature),
                               !.log = @ \o <<"info", "debug", "info", "info">>]
              ELSE [sum EXCEPT !.sent = Append(@, cutted_text),
                               !.replies = Append(@, reply),
                               !.slept = Append(@, 0),
                               !.log = @ \o <<"info", "debug", "warning">>]
        /\ UNCHANGED rq

\* summarize_texts: after the loop, return summaries
summarize_texts_return ==
    /\ sum.pc = "loop"
    /\ Len(sum.replies) = Len(sum.texts)
    /\ sum' = [sum EXCEPT !.pc = "returned", !.log = Append(@, "info")]
    /\ UNCHANGED rq

NextSum ==
    \/ \E t \in TextValues, r \in Replies :
          claim_title_summarize(t, r) /\ UNCHANGED <<dbVars, graphVars, ov>>
    \/ \E ts \in TextLists, c \in CutValues :
          summarize_texts(ts, c) /\ UNCHANGED <<dbVars, graphVars, ov>>
    \/ \E r \in Replies : summarize_texts_iteration(r) /\ UNCHANGED <<dbVars, graphVars, ov>>
    \/ summarize_texts_return /\ UNCHANGED <<dbVars, graphVars, ov>>

----------------------------------------------------------------------------
(* Graph loader (src/GraphRAG/graph_manager.py) *)

\* a value Cypher reads as null: a key the record does not carry
NoValue == "<null>"

ArticleTitles == {"A", "B"}
Versions == {[url |-> "u1", body |-> "b1"], [url |-> "u2", body |-> "b2"]}
\* the ENTITY and TOPIC lists of a record: either list may be empty
Labels ==
    {[ENTITY |-> <<>>, TOPIC |-> <<"p1">>],
     [ENTITY |-> <<"e1">>, TOPIC |-> <<>>],
     [ENTITY |-> <<"e1">>, TOPIC |-> <<"p1">>]}
GoodRecords ==
    {[TITLE |-> t, URL |-> v.url, BODY |-> v.body, SITE |-> "s1",
      ENTITY |-> l.ENTITY, TOPIC |-> l.TOPIC] :
        t \in ArticleTitles, v \in Versions, l \in Labels}
BadRecord ==
    [TITLE |-> NoValue, URL |-> "u1", BODY |-> "b1", SITE |-> "s1",
     ENTITY |-> <<>>, TOPIC |-> <<>>]
GraphRecords == GoodRecords \cup {BadRecord}
GraphBatches == SeqsUpTo(GraphRecords, MaxLoad)

EmptyGraph ==
    [articles |-> <<>>, sites |-> {}, entities |-> {}, topics |-> {},
     published_on |-> {}, mentions |-> {}, has_topic |-> {}]

\* the Article nodes whose title is t, by position
ArticlesTitled(g, t) == {i \in 1..Len(g.articles) : g.articles[i].title = t}

\* mutant: CREATE (a:Article {title: article.TITLE}) in place of MERGE
MergeArticle_Create(g, article) ==
    [g EXCEPT !.articles =
        Append(@, [title |-> article.TITLE, url |-> article.URL, body |-> article.BODY])]

\* MERGE (a:Article {title: article.TITLE}) SET a.url = ..., a.body = ...
MergeArticle(g, article) ==
    IF ArticlesTitled(g, article.TITLE) = {}
    THEN [g EXCEPT !.articles =
            Append(@, [title |-> article.TITLE, url |-> article.URL, body |-> article.BODY])]
    ELSE [g EXCEPT !.articles =
            [i \in 1..Len(@) |->
                IF @[i].title = article.TITLE
                THEN [@[i] EXCEPT !.url = article.URL, !.body = article.BODY]
                ELSE @[i]]]

\* the clauses of q_load_articles for one element of $data.  UNWIND over an
\* empty list yields no row, so the clauses after UNWIND article.ENTITY run once
\* per entity and not at all for a record without entities.
LoadArticle(g, article) ==
    LET g1 == MergeArticle(g, article)
        as == ArticlesTitled(g1, article.TITLE)
        es == Range(article.ENTITY)
        ts == IF es = {} THEN {} ELSE Range(article.TOPIC)
    IN  [g1 EXCEPT !.sites = @ \cup {article.SITE},
                   !.published_on = @ \cup (as \X {article.SITE}),
                   !.entities = @ \cup es,
                   !.mentions = @ \cup (as \X es),
                   !.topics = @ \cup ts,
                   !.has_topic = @ \cup (as \X ts)]

RECURSIVE RunLoadQuery(_, _)
\* UNWIND $data AS article ..., the elements in order
RunLoadQuery(g, data) ==
    IF data = <<>> THEN g ELSE RunLoadQuery(LoadArticle(g, Head(data)), Tail(data))

\* MERGE refuses a null property value; the query then fails as a whole
QueryAccepted(data) == \A k \in 1..Len(data) : data[k].TITLE # NoValue

NoVersion == [url |-> NoValue, body |-> NoValue]

InitGraph ==
    /\ graph = EmptyGraph
    /\ storeUp = TRUE
    /\ loaded = [t \in ArticleTitles |-> NoVersion]
    /\ gl = [op |-> "none", pc |-> "idle", data |-> <<>>, queryFailed |-> FALSE,
             log |-> <<>>, files |-> {}]

\* GraphManager.load_data(data): the query inside try/except, then
\* self.graph.refresh_schema() after it
load_data(data) ==
    LET queryOk == storeUp /\ QueryAccepted(data)
    IN  /\ graph' = IF queryOk THEN RunLoadQuery(graph, data) ELSE graph
        /\ loaded' =
              IF queryOk
              THEN [t \in ArticleTitles |->
                      LET ks == {k \in 1..Len(data) : data[k].TITLE = t}
                      IN  IF ks = {} THEN loaded[t]
                          ELSE LET k == CHOOSE x \in ks : \A y \in ks : y <= x
                               IN  [url |-> data[k].URL, body |-> data[k].BODY]]
              ELSE loaded
        /\ gl' = [op |-> "load_data",
                  pc |-> IF storeUp THEN "returned" ELSE "raised",
                  data |-> data,
                  queryFailed |-> ~queryOk,
                  log |-> IF queryOk THEN <<"info", "info">> ELSE <<"info", "error">>,
                  files |-> {}]
        /\ UNCHANGED storeUp

\* the three relation patterns extract_and_save_graph draws, in its order
Relations == <<"HAS_TOPIC", "MENTIONS", "PUBLISHED_ON">>

\* graph.run(query): the rows MATCH (a:Article)-[:rel]->(x) returns, as
\* <<a.title, x.name>>
QueryRows(g, rel) ==
    LET edges == IF rel = "HAS_TOPIC" THEN g.has_topic
                 ELSE IF rel = "MENTIONS" THEN g.mentions
                 ELSE g.published_on
    IN  {<<g.articles[e[1]].title, e[2]>> : e \in edges}

\* node_relation of each call: the two columns its query returns
node_relation(rel) ==
    <<"Articolo",
      IF rel = "HAS_TOPIC" THEN "Topic" ELSE IF rel = "MENTIONS" THEN "Entity" ELSE "Site">>

\* to_data_frame() builds the frame from the row dictionaries alone, so a frame
\* without rows has no columns either
FrameColumns(rel, rows) == IF rows = {} THEN {} ELSE Range(node_relation(rel))

\* create_and_save_graph(query, ...): TRUE when it reaches plt.savefig, FALSE
\* when it raises: the store does not answer, or results[node_relation[1]]
\* names a column the frame does not have
create_and_save_graph(g, up, rel) ==
    /\ up
    /\ node_relation(rel)[2] \in FrameColumns(rel, QueryRows(g, rel))

RECURSIVE DrawFrom(_, _, _)
\* the three create_and_save_graph calls from the k-th on, inside the try:
\* [files, ok]; the first call that raises ends the sequence
DrawFrom(g, up, k) ==
    IF k > Len(Relations) THEN [files |-> {}, ok |-> TRUE]
    ELSE IF create_and_save_graph(g, up, Relations[k])
         THEN LET rest == DrawFrom(g, up, k + 1)
              IN  [files |-> {Relations[k]} \cup rest.files, ok |-> rest.ok]
         ELSE [files |-> {}, ok |-> FALSE]

\* GraphManager.extract_and_save_graph(output_file_topic, output_file_entity,
\* output_file_site): everything runs inside try/except Exception
extract_and_save_graph ==
    LET r == DrawFrom(graph, storeUp, 1)
    IN  /\ gl' = [op |-> "extract_and_save_graph",
                  pc |-> "returned",
                  data |-> <<>>,
                  queryFailed |-> FALSE,
                  log |-> IF r.ok THEN <<"info">> ELSE <<"error">>,
                  files |-> r.files]
        /\ UNCHANGED <<graph, storeUp, loaded>>

\* the graph store becomes unreachable, or reachable again
StoreFails == storeUp /\ storeUp' = FALSE /\ UNCHANGED <<graph, loaded, gl>>
StoreRecovers == ~storeUp /\ storeUp' = TRUE /\ UNCHANGED <<graph, loaded, gl>>

NextGraph ==
    \/ \E data \in GraphBatches : load_data(data) /\ UNCHANGED <<dbVars, sumVars, ov>>
    \/ StoreFails /\ UNCHANGED <<dbVars, sumVars, ov>>
    \/ StoreRecovers /\ UNCHANGED <<dbVars, sumVars, ov>>
    \/ extract_and_save_graph /\ UNCHANGED <<dbVars, sumVars, ov>>

----------------------------------------------------------------------------
(* avoid_overlap of create_and_save_graph (src/GraphRAG/graph_manager.py).   *)
(* Coordinates are counted in units of 0.05, so the threshold 0.1 and the    *)
(* push 0.1 are both 2.                                                      *)

threshold == 2
push == 2

\* the positions a layout can hand over, per node
Points == (0..MaxCoord) \X (0..MaxCoord)
Layouts == UNION {[1..n -> Points] : n \in 0..MaxNodes}

\* np.linalg.norm(pos[node_i] - pos[node_j]) < threshold, on the squares
TooClose(pos, i, j) ==
    (pos[i][1] - pos[j][1]) * (pos[i][1] - pos[j][1])
        + (pos[i][2] - pos[j][2]) * (pos[i][2] - pos[j][2]) < threshold * threshold

\* mutant: the two nodes left where they are
Push_Nowhere(pos, i, j) == pos

\* pos[node_i] = [x + 0.1, y + 0.1]; pos[node_j] = [x - 0.1, y - 0.1]
Push(pos, i, j) ==
    [pos EXCEPT ![i] = <<@[1] + push, @[2] + push>>,
                ![j] = <<@[1] - push, @[2] - push>>]

IdleOv == [pc |-> "idle", start |-> <<>>, pos |-> <<>>, overlap |-> FALSE, i |-> 0, j |-> 0]

InitOv == ov = IdleOv

\* avoid_overlap(pos, G): nodes = list(G.nodes()); overlap = True
avoid_overlap(pos) ==
    /\ ov.pc \in {"idle", "done"}
    /\ ov' = [pc |-> "while", start |-> pos, pos |-> pos, overlap |-> TRUE, i |-> 0, j |-> 0]

\* while overlap: overlap = False, the outer for starts; otherwise return pos
avoid_overlap_while ==
    /\ ov.pc = "while"
    /\ ov' = IF ov.overlap
             THEN [ov EXCEPT !.pc = "for", !.overlap = FALSE, !.i = 1, !.j = 1]
             ELSE [ov EXCEPT !.pc = "done"]

\* one iteration of the inner for over (node_i, node_j), or the end of a for
avoid_overlap_for ==
    /\ ov.pc = "for"
    /\ ov' = IF ov.i > Len(ov.pos) THEN [ov EXCEPT !.pc = "while"]
             ELSE IF ov.j > Len(ov.pos) THEN [ov EXCEPT !.i = @ + 1, !.j = 1]
             ELSE IF ov.i >= ov.j THEN [ov EXCEPT !.j = @ + 1]
             ELSE IF TooClose(ov.pos, ov.i, ov.j)
             THEN [ov EXCEPT !.pos = Push(ov.pos, ov.i, ov.j), !.overlap = TRUE,
                             !.i = @ + 1, !.j = 1]
             ELSE [ov EXCEPT !.j = @ + 1]

NextOv ==
    \/ \E pos \in Layouts : avoid_overlap(pos) /\ UNCHANGED <<dbVars, sumVars, graphVars>>
    \/ avoid_overlap_while /\ UNCHANGED <<dbVars, sumVars, graphVars>>
    \/ avoid_overlap_for /\ UNCHANGED <<dbVars, sumVars, graphVars>>

----------------------------------------------------------------------------
(* Specifications *)

Init == InitDB /\ InitSum /\ InitGraph /\ InitOv

Next == NextDB \/ NextSum \/ NextGraph \/ NextOv

Spec == Init /\ [][Next]_vars

\* the persistence model alone
SpecDB == Init /\ [][NextDB]_vars

\* the summarization client alone
SpecSum == Init /\ [][NextSum]_vars

\* the graph loader and visualizer alone
SpecGraph == Init /\ [][NextGraph]_vars

\* avoid_overlap alone; a call that has started keeps running
SpecOv ==
    /\ Init
    /\ [][NextOv]_vars
    /\ WF_vars((avoid_overlap_while \/ avoid_overlap_for)
                  /\ UNCHANGED <<dbVars, sumVars, graphVars>>)

----------------------------------------------------------------------------
(* Properties of the persistence model *)

\* the six source fields of a returned record
Fields(r) ==
    [title |-> r.title, url |-> r.url, site |-> r.site, body |-> r.body,
     topic |-> r.topic, entities |-> r.entities]

\* how many records of the returned list carry exactly these field values
Returned(fields) == Cardinality({k \in 1..Len(ret) : Fields(ret[k]) = fields})

RECURSIVE SumAdded(_, _)
\* the number of inserts recorded for claim id over the source data in S
SumAdded(id, S) ==
    IF S = {} THEN 0
    ELSE LET d == CHOOSE x \in S : TRUE
         IN  added[<<id, d>>] + SumAdded(id, S \ {d})

\* the source data as the store holds it: entities as its text
AsStored(data) == [data EXCEPT !.entities = PyStr(@)]

C2_ClearNeverRaises == last.op = "clear" => last.outcome = "ok"

\* C3: after clear(claim_id) no claim, source or answer row carrying the
\* identifier remains, so get_sources is empty and has_answer is false.
C3_ClearLeavesNothing ==
    last.op = "clear" =>
        /\ \A i \in 1..Len(db.rows.claims) : db.rows.claims[i].id # last.id
        /\ \A i \in 1..Len(db.rows.sources) : db.rows.sources[i].claim_id # last.id
        /\ \A i \in 1..Len(db.rows.answers) : db.rows.answers[i].claim_id # last.id

\* no two rows of the claims table share an identifier
UniqueClaimIds ==
    \A i, j \in 1..Len(db.rows.claims) :
        db.rows.claims[i].id = db.rows.claims[j].id => i = j

\* a step keeps every claim row as it is, unless the step is clear on that
\* row's identifier, and keeps every Claim object
ClaimRowsKept ==
    /\ \A i \in 1..Len(db.rows.claims) :
          \/ \E j \in 1..Len(db'.rows.claims) : db'.rows.claims[j] = db.rows.claims[i]
          \/ last'.op = "clear" /\ last'.id = db.rows.claims[i].id
    /\ objs \subseteq objs'

\* C4: no two persisted claim rows share an identifier, whatever identifiers
\* callers supply, and no operation changes the identifier of a persisted claim.
C4_IdsUniqueAndStable == []UniqueClaimIds /\ [][ClaimRowsKept]_vars

\* C4 witness: two claims are persisted and a Claim(...) supplied with the
\* identifier of one of them was rejected.
C4_Witness ==
    /\ Len(db.rows.claims) = 2
    /\ last.op = "create_claim"
    /\ last.impl = "simple"
    /\ last.outcome = "raise"
    /\ \E i \in 1..Len(db.rows.claims) : db.rows.claims[i].id = last.id

\* the rows of the claims table that carry the identifier of the last call
LastClaimRows == SelectSeq(db.rows.claims, LAMBDA r : r.id = last.id)

\* C10: the title stored by a successful Claim(text, title, summary) is the
\* supplied title without its first two characters, the rest unchanged.
C10_StoredTitleDropsTwo ==
    (last.op = "create_claim" /\ last.impl = "full" /\ last.outcome = "ok") =>
        /\ Len(LastClaimRows) = 1
        /\ LastClaimRows[1].title.t = "text"
        /\ LET stored == LastClaimRows[1].title.v
           IN  /\ Len(stored) = (IF Len(arg) >= 2 THEN Len(arg) - 2 ELSE 0)
               /\ \A i \in 1..Len(stored) : stored[i] = arg[i + 2]

\* C10 witness: a claim was created with a title of three characters or more.
C10_Witness ==
    /\ last.op = "create_claim"
    /\ last.impl = "full"
    /\ last.outcome = "ok"
    /\ Len(arg) >= 3
    /\ Len(LastClaimRows) = 1

\* the columns the last write binds, when the last call is a write
WrittenColumns ==
    IF last.op = "create_claim"
    THEN (IF last.impl = "full" THEN ClaimsTableFull.cols ELSE ClaimsTableSimple.cols)
    ELSE IF last.op = "add_sources"
    THEN (IF last.impl = "full" THEN SourcesTableFull.cols ELSE SourcesTableSimple.cols)
    ELSE IF last.op = "create_answer" THEN AnswersTable.cols
    ELSE {}

\* the table the last write inserts into
WrittenTable ==
    IF last.op = "create_claim" THEN "claims"
    ELSE IF last.op = "add_sources" THEN "sources"
    ELSE "answers"

\* C14: after every write of either Claim implementation, of add_sources and of
\* Answer, in whatever order they are issued on one store, the table written
\* exists and has every column the write binds.
C14_SchemaFitsEveryWrite ==
    last.op \in {"create_claim", "add_sources", "create_answer"} =>
        /\ db.schema[WrittenTable].exists
        /\ WrittenColumns \subseteq db.schema[WrittenTable].cols

\* "The Earth Is Round"
TheEarthIsRound ==
    <<"T", "h", "e", " ", "E", "a", "r", "t", "h", " ", "I", "s", " ",
      "R", "o", "u", "n", "d">>

\* "e Earth Is Round"
eEarthIsRound ==
    <<"e", " ", "E", "a", "r", "t", "h", " ", "I", "s", " ", "R", "o", "u", "n", "d">>

\* a Claim(...) of the title/summary implementation given the title
\* "IDThe Earth Is Round" has just been stored
ExampleStored ==
    /\ last.op = "create_claim"
    /\ last.impl = "full"
    /\ last.outcome = "ok"
    /\ arg = SampleTitle

\* C11 (as stated): Claim(text, "IDThe Earth Is Round", summary) stores the
\* title "e Earth Is Round".
C11_StoresEEarthIsRound ==
    ExampleStored =>
        \A i \in 1..Len(LastClaimRows) : LastClaimRows[i].title = Txt(eEarthIsRound)

\* C11 (amended): Claim(text, "IDThe Earth Is Round", summary) stores the
\* title "The Earth Is Round".
C11_StoresTheEarthIsRound ==
    ExampleStored =>
        /\ Len(LastClaimRows) = 1
        /\ LastClaimRows[1].title = Txt(TheEarthIsRound)

\* C11 witness: the example claim was created and its row is in the store.
C11_Witness ==
    /\ ExampleStored
    /\ Len(LastClaimRows) = 1
    /\ Len(LastClaimRows[1].title.v) = 18

----------------------------------------------------------------------------
(* Properties of the summarization client *)

\* the entry a remote reply is to contribute to the list summarize_texts returns
Expected(reply) ==
    IF reply.kind = "text" THEN Str(Strip(reply.content)) ELSE None

\* C5: summarize_texts returns one entry per input text: the summary where the
\* remote call succeeded, None where it failed.
C5_OneResultPerInput ==
    sum.pc = "returned" =>
        /\ Len(sum.summaries) = Len(sum.texts)
        /\ \A i \in 1..Len(sum.texts) : sum.summaries[i] = Expected(sum.replies[i])

C16_SleepBetweenCalls ==
    \A i \in 1..Len(sum.sent) :
        /\ sum.sent[i] = Slice(sum.texts[i], sum.cut)
        /\ i < Len(sum.sent) => sum.slept[i] = Len(sum.sent[i]) * sleep_temperature

----------------------------------------------------------------------------
(* Properties of the graph loader *)

\* C8: the graph holds exactly one Article node per title loaded, bearing the
\* url and body of the record loaded last with that title, and no other Article.
C8_OneArticlePerTitle ==
    /\ \A i \in 1..Len(graph.articles) : graph.articles[i].title \in ArticleTitles
    /\ \A t \in ArticleTitles :
          IF loaded[t] = NoVersion THEN ArticlesTitled(graph, t) = {}
          ELSE /\ Cardinality(ArticlesTitled(graph, t)) = 1
               /\ \A i \in ArticlesTitled(graph, t) :
                     /\ graph.articles[i].url = loaded[t].url
                     /\ graph.articles[i].body = loaded[t].body

\* C8 witness: one batch carried the same title twice, with different bodies,
\* and the node bears the body of the second record.
C8_Witness ==
    /\ gl.pc = "returned"
    /\ ~gl.queryFailed
    /\ Len(gl.data) = 2
    /\ gl.data[1].TITLE = gl.data[2].TITLE
    /\ gl.data[1].BODY # gl.data[2].BODY
    /\ \E i \in 1..Len(graph.articles) :
          /\ graph.articles[i].title = gl.data[2].TITLE
          /\ graph.articles[i].body = gl.data[2].BODY

\* C9: when the graph engine fails during load_data, load_data logs the error
\* and returns normally.
C9_LoadFailureNotSurfaced ==
    (gl.pc # "idle" /\ gl.queryFailed) =>
        /\ gl.pc = "returned"
        /\ gl.log[Len(gl.log)] = "error"

\* C12: extract_and_save_graph on a graph whose three read queries return no
\* rows returns normally and writes an image for each of the three relations.
C12_EmptyGraphDrawn ==
    (/\ gl.op = "extract_and_save_graph"
     /\ \A k \in 1..Len(Relations) : QueryRows(graph, Relations[k]) = {}) =>
        /\ gl.pc = "returned"
        /\ gl.files = Range(Relations)

\* C13: after a load_data call whose query succeeded, for every record of the
\* batch the graph holds the Article node, the Site node and a PUBLISHED_ON
\* edge to it, an Entity node and a MENTIONS edge for every entity of the
\* record, and a Topic node and a HAS_TOPIC edge for every topic of the record.
C13_EveryLabelLoaded ==
    (gl.op = "load_data" /\ ~gl.queryFailed) =>
        \A k \in 1..Len(gl.data) :
            LET article == gl.data[k]
            IN  \E a \in ArticlesTitled(graph, article.TITLE) :
                    /\ article.SITE \in graph.sites
                    /\ <<a, article.SITE>> \in graph.published_on
                    /\ \A e \in Range(article.ENTITY) :
                          e \in graph.entities /\ <<a, e>> \in graph.mentions
                    /\ \A t \in Range(article.TOPIC) :
                          t \in graph.topics /\ <<a, t>> \in graph.has_topic

----------------------------------------------------------------------------
(* Properties of avoid_overlap *)

\* no two nodes are closer than the threshold
Separated(pos) ==
    \A i, j \in 1..Len(pos) : i < j => ~TooClose(pos, i, j)

\* C15: every call of avoid_overlap returns, whatever the number of nodes and
\* their initial positions, and when it returns no pair of nodes is closer than
\* the threshold.
C15_RepulsionTerminates ==
    (ov.pc \in {"while", "for"}) ~> (ov.pc = "done" /\ Separated(ov.pos))

\* C15 witness: a call that started with three nodes on one point has returned
\* with the nodes moved.
C15_Witness ==
    /\ ov.pc = "done"
    /\ Len(ov.start) = 3
    /\ ov.start[1] = ov.start[2]
    /\ ov.start[2] = ov.start[3]
    /\ ov.pos # ov.start
    /\ Separated(ov.pos)

====
